---- MODULE Spec2Model ----
(***************************************************************************)
(* A model of tactile_servo_control: the per-task control parameters       *)
(* (setup_control_params) driving a PI controller, the label codec         *)
(* (LabelEncoder) and the data collection script (collect_data).           *)
(*                                                                         *)
(* Numbers are exact extended rationals [n, d] (d = 0: n = 1 is +inf,      *)
(* n = -1 is -inf, n = 0 is nan), so that float division by zero yields    *)
(* inf/nan as torch does, and a round trip is decided in exact arithmetic. *)
(***************************************************************************)
EXTENDS Integers, Sequences, FiniteSets, TLC

VARIABLES
    prog,            \* which program this run executes: "servo", "codec", "collect"
    \* ---- servo: ControlParams and PIDState
    task,            \* the task name given to setup_control_params
    control_params,  \* what setup_control_params returned
    pid_state,       \* "uninitialized" | "running"
    integral,        \* PIDState: one accumulator per axis
    control_output,  \* the last step's control output
    nsteps,          \* steps taken in this episode
    \* ---- codec: a LabelEncoder and the results of its last calls
    enc,             \* the LabelEncoder's fields, set by __init__
    cpc,             \* "ready" | "encoded" | "decoded" | "predicted" | "scored"
    labels_dict,     \* the pose given to encode_label
    encoded,         \* what encode_label returned (or the error it raised)
    outputs,         \* the estimator output given to decode_label
    decoded,         \* what decode_label returned (or the error it raised)
    predictions_arr, \* what LabelledModel.predict returned (or the error)
    err_df,          \* the errors given to acc_metric
    acc_df,          \* what acc_metric returned
    \* ---- collect: collect_data's position, locals and what it has commanded
    cd_pc,           \* the statement collect_data is at
    target_df,       \* the rows of target poses
    row_i,           \* the index of the row the loop is at (0 before the loop)
    pose,            \* the local pose (the row's pose plus obj_pose)
    move,            \* the local move
    joint_angles,    \* robot.joint_angles
    events           \* the calls made on robot and sensor so far, in order

servoVars == <<task, control_params, pid_state, integral, control_output, nsteps>>
codecVars == <<enc, cpc, labels_dict, encoded, outputs, decoded, predictions_arr,
               err_df, acc_df>>
collectVars == <<cd_pc, target_df, row_i, pose, move, joint_angles, events>>
vars == <<prog, servoVars, codecVars, collectVars>>

----------------------------------------------------------------------------
(* Bounds of the model *)

MaxSteps == 3      \* control steps modelled per episode
MaxTargets == 2    \* target labels of a LabelSpec
MaxSurplus == 1    \* estimator outputs are up to this much longer than the largest out_dim
MaxRows == 2       \* rows of target_df

----------------------------------------------------------------------------
(* Exact extended rationals *)

Abs(x) == IF x < 0 THEN -x ELSE x
Sgn(x) == IF x < 0 THEN -1 ELSE IF x > 0 THEN 1 ELSE 0

RECURSIVE GCD(_, _)
GCD(a, b) == IF b = 0 THEN a ELSE GCD(b, a % b)

Rat(n, d) ==
    IF d = 0 THEN [n |-> Sgn(n), d |-> 0]
    ELSE LET g == GCD(Abs(n), Abs(d))
         IN  [n |-> (Sgn(d) * n) \div g, d |-> Abs(d) \div g]

I(n) == [n |-> n, d |-> 1]
NaN == [n |-> 0, d |-> 0]
IsNaN(a) == a.d = 0 /\ a.n = 0
IsInf(a) == a.d = 0 /\ a.n # 0

RAdd(a, b) ==
    IF IsNaN(a) \/ IsNaN(b) THEN NaN
    ELSE IF IsInf(a) /\ IsInf(b) THEN (IF a.n = b.n THEN a ELSE NaN)
    ELSE IF IsInf(a) THEN a
    ELSE IF IsInf(b) THEN b
    ELSE Rat(a.n * b.d + b.n * a.d, a.d * b.d)
RNeg(a) == [n |-> -a.n, d |-> a.d]
RSub(a, b) == RAdd(a, RNeg(b))
RMul(a, b) == Rat(a.n * b.n, a.d * b.d)
RInv(b) ==
    IF b.d = 0 THEN (IF b.n = 0 THEN NaN ELSE I(0))
    ELSE IF b.n = 0 THEN [n |-> 1, d |-> 0]
    ELSE Rat(b.d, b.n)
RDiv(a, b) == RMul(a, RInv(b))
RLess(a, b) ==
    IF IsNaN(a) \/ IsNaN(b) THEN FALSE
    ELSE IF a.d = 0 /\ b.d = 0 THEN a.n < b.n
    ELSE a.n * b.d < b.n * a.d
RLeq(a, b) == ~IsNaN(a) /\ ~IsNaN(b) /\ (a = b \/ RLess(a, b))
REq(a, b) == ~IsNaN(a) /\ a = b

Axes == 1..6
IVec(s) == [i \in DOMAIN s |-> I(s[i])]
Tenths(s) == [i \in DOMAIN s |-> Rat(s[i], 10)]

----------------------------------------------------------------------------
(* The outcome of a call: nothing yet, an exception raised, or a value     *)

None == [st |-> "none"]
Raised(e) == [st |-> "error", err |-> e]
Ok(v) == [st |-> "ok", out |-> v]

\* the codec part in runs of the other programs: no LabelEncoder is built
NoEnc == [label_names |-> <<>>]

IdleCodec ==
    /\ enc = NoEnc
    /\ cpc = "idle"
    /\ labels_dict = None
    /\ encoded = None
    /\ outputs = None
    /\ decoded = None
    /\ predictions_arr = None
    /\ err_df = None
    /\ acc_df = None

Zero6i == <<0, 0, 0, 0, 0, 0>>

\* the collection part in runs of the other programs: collect_data is not called
IdleCollect ==
    /\ cd_pc = "idle"
    /\ target_df = <<>>
    /\ row_i = 0
    /\ pose = Zero6i
    /\ move = Zero6i
    /\ joint_angles = Zero6i
    /\ events = <<>>

----------------------------------------------------------------------------
(* setup_control_params: the per-task ControlParams.  kp and ki are given  *)
(* in tenths (0.5 is 5, 0.3 is 3).                                         *)

Tasks == {"surface_3d", "edge_2d", "edge_3d", "edge_5d"}

\* the control_params dict of each task (the if/elif chain)
TaskTable(t) ==
    CASE t = "surface_3d" ->
        [ep_len |-> 500,
         kp |-> Tenths(<<10, 10, 5, 5, 5, 10>>),
         ki |-> Tenths(<<0, 0, 3, 1, 1, 0>>),
         ei_clip |-> <<IVec(<<0, 0, 0, -30, -30, 0>>), IVec(<<0, 0, 5, 30, 30, 0>>)>>,
         ref_pose |-> IVec(<<0, -1, 3, 0, 0, 0>>)]
      [] t = "edge_2d" ->
        [ep_len |-> 50,
         kp |-> Tenths(<<5, 10, 0, 0, 0, 5>>),
         ki |-> Tenths(<<3, 0, 0, 0, 0, 1>>),
         ei_clip |-> <<IVec(<<-5, 0, 0, 0, 0, -45>>), IVec(<<5, 0, 0, 0, 0, 45>>)>>,
         ref_pose |-> IVec(<<0, 1, 0, 0, 0, 0>>)]
      [] t = "edge_3d" ->
        [ep_len |-> 400,
         kp |-> Tenths(<<5, 10, 5, 0, 0, 5>>),
         ki |-> Tenths(<<3, 0, 3, 0, 0, 1>>),
         ei_clip |-> <<IVec(<<0, -5, 0, 0, 0, -45>>), IVec(<<0, 5, 5, 0, 0, 45>>)>>,
         ref_pose |-> IVec(<<0, 1, 3, 0, 0, 0>>)]
      [] t = "edge_5d" ->
        [ep_len |-> 250,
         kp |-> Tenths(<<10, 5, 5, 5, 5, 5>>),
         ki |-> Tenths(<<0, 3, 3, 1, 1, 1>>),
         ei_clip |-> <<IVec(<<0, -5, 0, -30, -30, -45>>), IVec(<<0, 5, 5, 30, 30, 45>>)>>,
         ref_pose |-> IVec(<<1, 0, 3, 0, 0, 0>>)]

\* as setup_control_params, with edge_3d's lower clip on y written 5 for -5
setup_control_params_SignSlip(t) ==
    IF t = "edge_3d"
    THEN [TaskTable(t) EXCEPT !.ei_clip[1][2] = I(5)]
    ELSE TaskTable(t)

\* as setup_control_params, with the two rows of ei_clip in the other order
setup_control_params_RowsSwapped(t) ==
    [TaskTable(t) EXCEPT !.ei_clip = <<TaskTable(t).ei_clip[2], TaskTable(t).ei_clip[1]>>]

\* setup_control_params returns the task's dict (saving it, and turning the error
\* string into a function, change none of the numbers)
setup_control_params(t) == TaskTable(t)

NoParams == [ep_len |-> 0]

----------------------------------------------------------------------------
(* PIDController: reset() and step(error, dt)                              *)

\* clip(x, lo, hi) = min(max(x, lo), hi)
Clip(x, lo, hi) ==
    LET m == IF RLess(x, lo) THEN lo ELSE x
    IN  IF RLess(hi, m) THEN hi ELSE m

Zero6 == [i \in Axes |-> I(0)]

\* the integral state after one step
StepIntegral(p, ei, error, dt) ==
    [i \in Axes |->
        Clip(RAdd(ei[i], RMul(RMul(p.ki[i], error[i]), dt)),
             p.ei_clip[1][i], p.ei_clip[2][i])]

\* the control output of that step
StepOutput(p, ei2, error) ==
    [i \in Axes |-> RAdd(RMul(p.kp[i], error[i]), ei2[i])]

\* error vectors and time steps fed to the controller
BigErrVals == {-100, 100}
ErrVals == BigErrVals \cup {-1, 1}
ErrorVectors ==
    {[i \in Axes |-> I(e)] : e \in ErrVals}
    \cup {[i \in Axes |-> IF i = a THEN I(e) ELSE I(0)] : a \in Axes, e \in BigErrVals}
DtVals == {I(1)}

\* the servo part before any task is set up (and in runs of the other programs)
IdleServo ==
    /\ control_params = NoParams
    /\ pid_state = "uninitialized"
    /\ integral = Zero6
    /\ control_output = Zero6
    /\ nsteps = 0

InitServo ==
    /\ prog = "servo"
    /\ task \in Tasks
    /\ IdleServo
    /\ IdleCodec
    /\ IdleCollect

\* control_params = setup_control_params(task)
SetupControlParams ==
    /\ prog = "servo"
    /\ control_params = NoParams
    /\ control_params' = setup_control_params(task)
    /\ UNCHANGED <<prog, task, pid_state, integral, control_output, nsteps, codecVars, collectVars>>

\* PIDController.reset(): a new episode starts
Reset ==
    /\ prog = "servo"
    /\ control_params # NoParams
    /\ pid_state' = "running"
    /\ integral' = Zero6
    /\ control_output' = Zero6
    /\ nsteps' = 0
    /\ UNCHANGED <<prog, task, control_params, codecVars, collectVars>>

\* PIDController.step(error, dt), at most ep_len times an episode
Step ==
    /\ prog = "servo"
    /\ pid_state = "running"
    /\ nsteps < control_params.ep_len
    /\ nsteps < MaxSteps
    /\ \E error \in ErrorVectors, dt \in DtVals :
          LET ei2 == StepIntegral(control_params, integral, error, dt)
          IN  /\ integral' = ei2
              /\ control_output' = StepOutput(control_params, ei2, error)
    /\ nsteps' = nsteps + 1
    /\ UNCHANGED <<prog, task, control_params, pid_state, codecVars, collectVars>>


----------------------------------------------------------------------------
(* LabelEncoder                                                            *)


SeqRange(s) == {s[i] : i \in DOMAIN s}
MinOf(S) == CHOOSE x \in S : \A y \in S : x <= y
\* list.index(x): the first position of x
IndexOf(s, x) == MinOf({i \in DOMAIN s : s[i] = x})
\* list.count(x)
CountOf(s, x) == Cardinality({i \in DOMAIN s : s[i] = x})

\* a weight is a Python int (int = TRUE) or a float (a Python float or numpy.float64)
IntW(k) == [int |-> TRUE, v |-> I(k)]
FloatW(r) == [int |-> FALSE, v |-> r]
\* np.ones(n)
NpOnesW(n) == [i \in 1..n |-> FloatW(I(1))]
NpOnes(n) == [i \in 1..n |-> I(1)]

\* LabelEncoder.__init__: the optional keys of task_params fall back to defaults
LabelEncoderInit(task_params) ==
    LET num_targets == Len(task_params.target_label_names)
    IN  [label_names |-> task_params.label_names,
         target_label_names |-> task_params.target_label_names,
         periodic_label_names |->
             IF "periodic_label_names" \in DOMAIN task_params
             THEN task_params.periodic_label_names ELSE <<>>,
         target_weights |->
             IF "target_weights" \in DOMAIN task_params
             THEN task_params.target_weights ELSE NpOnesW(num_targets),
         tolerences |->
             IF "tolerences" \in DOMAIN task_params
             THEN task_params.tolerences ELSE NpOnes(num_targets),
         llims |-> task_params.llims,
         ulims |-> task_params.ulims]

RECURSIVE SumSeq(_)
SumSeq(s) == IF s = <<>> THEN 0 ELSE Head(s) + SumSeq(Tail(s))

out_dim(e) ==
    LET periodic_dims == [i \in DOMAIN e.periodic_label_names |->
                             CountOf(e.target_label_names, e.periodic_label_names[i])]
    IN  Len(e.target_label_names) + SumSeq(periodic_dims)

encode_norm(e, target, label_name) ==
    LET llim == e.llims[IndexOf(e.label_names, label_name)]
        ulim == e.ulims[IndexOf(e.label_names, label_name)]
    IN  RSub(RMul(RDiv(RSub(target, llim), RSub(ulim, llim)), I(2)), I(1))

decode_norm(e, prediction, label_name) ==
    LET llim == e.llims[IndexOf(e.label_names, label_name)]
        ulim == e.ulims[IndexOf(e.label_names, label_name)]
    IN  RAdd(RMul(RDiv(RAdd(prediction, I(1)), I(2)), RSub(ulim, llim)), llim)

\* sin and cos of an angle in degrees: exact at the multiples of 90 degrees, and a
\* symbolic value elsewhere
IsQuadrantal(a) == a.d = 1 /\ a.n % 90 = 0
SinDeg(a) ==
    IF IsQuadrantal(a)
    THEN CASE a.n % 360 = 0 -> I(0) [] a.n % 360 = 90 -> I(1)
           [] a.n % 360 = 180 -> I(0) [] a.n % 360 = 270 -> I(-1)
    ELSE [sin |-> a]
CosDeg(a) ==
    IF IsQuadrantal(a)
    THEN CASE a.n % 360 = 0 -> I(1) [] a.n % 360 = 90 -> I(0)
           [] a.n % 360 = 180 -> I(-1) [] a.n % 360 = 270 -> I(0)
    ELSE [cos |-> a]

\* atan2(y, x) in degrees: exact on the axes and the diagonals, symbolic elsewhere
RAbs(a) == [n |-> Abs(a.n), d |-> a.d]
Atan2Deg(y, x) ==
    IF IsNaN(y) \/ IsNaN(x) THEN NaN
    ELSE IF y.n = 0 THEN (IF x.n >= 0 THEN I(0) ELSE I(180))
    ELSE IF x.n = 0 THEN I(90 * Sgn(y.n))
    ELSE IF RAbs(y) = RAbs(x) THEN I(Sgn(y.n) * (IF x.n > 0 THEN 45 ELSE 135))
    ELSE IF IsInf(y) THEN I(90 * Sgn(y.n))
    ELSE IF IsInf(x) THEN (IF x.n > 0 THEN I(0) ELSE I(180 * Sgn(y.n)))
    ELSE [atan2y |-> y, atan2x |-> x]

encode_circnorm(target) == <<SinDeg(target), CosDeg(target)>>

decode_circnorm(vec_prediction) == Atan2Deg(vec_prediction[1], vec_prediction[2])

\* Python's  weight * list : a list repeated for an int (empty when the int is
\* <= 0), a TypeError for a float
RECURSIVE Repeat(_, _)
Repeat(k, list) == IF k <= 0 THEN <<>> ELSE list \o Repeat(k - 1, list)
ListTimes(weight, list) ==
    IF weight.int THEN Ok(Repeat(weight.v.n, list)) ELSE Raised("TypeError")

ZipLen(e) ==
    IF Len(e.target_label_names) <= Len(e.target_weights)
    THEN Len(e.target_label_names) ELSE Len(e.target_weights)

\* the loop of encode_label from its k-th (label_name, weight) pair on
RECURSIVE encode_walk(_, _, _, _)
encode_walk(e, labels, k, encoded_pose) ==
    IF k > ZipLen(e)
    THEN \* torch.cat of an empty list raises
         IF encoded_pose = <<>> THEN Raised("RuntimeError") ELSE Ok(encoded_pose)
    ELSE LET label_name == e.target_label_names[k]
             weight == e.target_weights[k]
             target == labels[label_name]
         IN  IF label_name \notin SeqRange(e.periodic_label_names)
             THEN encode_walk(e, labels, k + 1,
                      Append(encoded_pose,
                             RMul(weight.v, encode_norm(e, target, label_name))))
             ELSE LET rep == ListTimes(weight, encode_circnorm(target))
                  IN  IF rep.st = "error" THEN rep
                      ELSE encode_walk(e, labels, k + 1, encoded_pose \o rep.out)

encode_label(e, labels) == encode_walk(e, labels, 1, <<>>)

\* a dict with one entry stored: a new key is added, an old one overwritten
DictSet(dict, key, val) ==
    [k \in DOMAIN dict \cup {key} |-> IF k = key THEN val ELSE dict[k]]

\* the loop of decode_label from its k-th pair on, ind the next column (from 1)
RECURSIVE decode_walk(_, _, _, _, _)
decode_walk(e, outs, k, ind, decoded_pose) ==
    IF k > ZipLen(e) THEN Ok(decoded_pose)
    ELSE LET label_name == e.target_label_names[k]
             weight == e.target_weights[k]
         IN  IF label_name \notin SeqRange(e.periodic_label_names)
             THEN IF ind > Len(outs) THEN Raised("IndexError")
                  ELSE LET prediction == RDiv(outs[ind], weight.v)
                       IN  decode_walk(e, outs, k + 1, ind + 1,
                               DictSet(decoded_pose, label_name,
                                       decode_norm(e, prediction, label_name)))
             ELSE IF ind + 1 > Len(outs) THEN Raised("IndexError")
                  ELSE LET vec_prediction == <<RDiv(outs[ind], weight.v),
                                               RDiv(outs[ind + 1], weight.v)>>
                       IN  decode_walk(e, outs, k + 1, ind + 2,
                               DictSet(decoded_pose, label_name,
                                       decode_circnorm(vec_prediction)))

\* as ZerosDict, with entries for the target labels only
ZerosDict_TargetsOnly(e) == [l \in SeqRange(e.target_label_names) |-> I(0)]

\* the dict decode_label starts from: zero for every label of label_names
ZerosDict(e) == [l \in SeqRange(e.label_names) |-> I(0)]

decode_label(e, outs) == decode_walk(e, outs, 1, 1, ZerosDict(e))

\* as Correct, with <= for <
Correct_Leq(abs_err, tolerence) == RLeq(abs_err, tolerence)

\* correct = (abs_err < tolerence)
Correct(abs_err, tolerence) == RLess(abs_err, tolerence)

\* the loop of acc_metric from its k-th (label_name, tolerence) pair on

AccZipLen(e) ==
    IF Len(e.target_label_names) <= Len(e.tolerences)
    THEN Len(e.target_label_names) ELSE Len(e.tolerences)

AsFloat(b) == IF b THEN I(1) ELSE I(0)

RECURSIVE acc_walk(_, _, _, _, _)
acc_walk(e, errs, k, overall_correct, acc) ==
    IF k > AccZipLen(e)
    THEN DictSet(acc, "overall_acc", AsFloat(overall_correct))
    ELSE LET label_name == e.target_label_names[k]
             correct == Correct(errs[label_name], e.tolerences[k])
         IN  acc_walk(e, errs, k + 1, overall_correct /\ correct,
                      DictSet(acc, label_name, AsFloat(correct)))

\* the columns of acc_df before the loop: no value yet
EmptyAcc(e) == [l \in SeqRange(e.label_names) \cup {"overall_acc"} |-> NaN]

acc_metric(e, errs) == acc_walk(e, errs, 1, TRUE, EmptyAcc(e))

\* LabelledModel.predict after the estimator has run: decode, then pack the
\* target labels' values into an array over label_names
predict(e, outs) ==
    LET predictions_dict == decode_label(e, outs)
    IN  IF predictions_dict.st = "error" THEN predictions_dict
        ELSE Ok([i \in DOMAIN e.label_names |->
                    IF e.label_names[i] \in SeqRange(e.target_label_names)
                    THEN predictions_dict.out[e.label_names[i]] ELSE I(0)])

----------------------------------------------------------------------------
(* The LabelSpecs, poses, estimator outputs and errors the codec is run on *)

LabelNames == <<"pose_y", "pose_z", "pose_Rz">>
LimChoices ==
    {[llims |-> IVec(<<-5, 0, -45>>), ulims |-> IVec(<<5, 10, 45>>)],
     [llims |-> IVec(<<-5, 5, -45>>), ulims |-> IVec(<<5, 5, 45>>)]}
WeightVals == {IntW(1), IntW(2), FloatW(Rat(1, 2))}
TolVals == {I(1), I(2)}
AngleVals == {I(-90), I(180), I(270)}
ErrChoices == {I(0), I(1), Rat(3, 2), I(2)}

IsInjective(s) == \A i, j \in DOMAIN s : s[i] = s[j] => i = j
TargetSeqs ==
    UNION {{s \in [1..n -> SeqRange(LabelNames)] : IsInjective(s)} : n \in 1..MaxTargets}
\* the periodic labels: any subset of the targets, in the targets' order
PeriodicSeqs(t) ==
    {[i \in 1..Cardinality(S) |->
         t[MinOf({j \in DOMAIN t : Cardinality({k \in 1..j : t[k] \in S}) = i})]]
       : S \in SUBSET SeqRange(t)}

BaseParams(t, p, lim) ==
    LET b == [label_names |-> LabelNames, target_label_names |-> t,
              llims |-> lim.llims, ulims |-> lim.ulims]
    IN  IF p = <<>> THEN b ELSE b @@ [periodic_label_names |-> p]

\* task_params: with target_weights given or left out, with tolerences given or
\* left out
TaskParams ==
    UNION {UNION {{BaseParams(t, p, lim) : lim \in LimChoices}
                  \cup {BaseParams(t, p, lim) @@ [target_weights |-> w] :
                          lim \in LimChoices, w \in [1..Len(t) -> WeightVals]}
                  \cup {BaseParams(t, p, lim) @@ [tolerences |-> tl] :
                          lim \in LimChoices, tl \in [1..Len(t) -> TolVals]}
                  : p \in PeriodicSeqs(t)} : t \in TargetSeqs}

Lim(e, l) == [lo |-> e.llims[IndexOf(e.label_names, l)],
              hi |-> e.ulims[IndexOf(e.label_names, l)]]
Mid(a, b) == RDiv(RAdd(a, b), I(2))

\* the values a pose takes for label l: angles for a periodic label, in-range
\* values for another target label, the lower limit for a label that is no target
PoseVals(e, l) ==
    IF l \in SeqRange(e.periodic_label_names) THEN AngleVals
    ELSE IF l \in SeqRange(e.target_label_names)
         THEN {Lim(e, l).lo, Mid(Lim(e, l).lo, Lim(e, l).hi), Lim(e, l).hi}
         ELSE {Lim(e, l).lo}
AllPoseVals(e) == UNION {PoseVals(e, l) : l \in SeqRange(e.label_names)}
LabelsDicts(e) ==
    {f \in [SeqRange(e.label_names) -> AllPoseVals(e)] :
        \A l \in SeqRange(e.label_names) : f[l] \in PoseVals(e, l)}

\* estimator outputs: every length from 0 to past the largest out_dim, in three
\* value patterns
MaxOut == 2 * MaxTargets + MaxSurplus
NetOutputs ==
    UNION {{[i \in 1..n |-> I(-1)], [i \in 1..n |-> Rat(1, 2)],
            [i \in 1..n |-> IF i % 2 = 1 THEN I(1) ELSE I(0)]} : n \in 0..MaxOut}

\* err_df as err_metric leaves it: a value for each target label, nan elsewhere
ErrDfs(e) ==
    {f \in [SeqRange(e.label_names) -> ErrChoices \cup {NaN}] :
        \A l \in SeqRange(e.label_names) :
            (f[l] = NaN) <=> (l \notin SeqRange(e.target_label_names))}

InitCodec ==
    /\ prog = "codec"
    /\ \E tp \in TaskParams : enc = LabelEncoderInit(tp)
    /\ cpc = "ready"
    /\ labels_dict = None
    /\ encoded = None
    /\ outputs = None
    /\ decoded = None
    /\ predictions_arr = None
    /\ err_df = None
    /\ acc_df = None
    /\ task = "none"
    /\ IdleServo
    /\ IdleCollect

\* encoded = label_encoder.encode_label(labels_dict)
EncodeLabel ==
    /\ prog = "codec"
    /\ cpc = "ready"
    /\ \E labels \in LabelsDicts(enc) :
          /\ labels_dict' = labels
          /\ encoded' = encode_label(enc, labels)
    /\ cpc' = "encoded"
    /\ UNCHANGED <<prog, servoVars, enc, outputs, decoded, predictions_arr, err_df, acc_df,
                   collectVars>>

\* decoded = label_encoder.decode_label(encoded): the round trip
DecodeEncoded ==
    /\ prog = "codec"
    /\ cpc = "encoded"
    /\ encoded.st = "ok"
    /\ outputs' = encoded.out
    /\ decoded' = decode_label(enc, encoded.out)
    /\ cpc' = "decoded"
    /\ UNCHANGED <<prog, servoVars, enc, labels_dict, encoded, predictions_arr, err_df, acc_df,
                   collectVars>>

\* LabelledModel.predict: the estimator returns outs, which is decoded and packed
Predict ==
    /\ prog = "codec"
    /\ cpc = "ready"
    /\ \E outs \in NetOutputs :
          /\ outputs' = outs
          /\ decoded' = decode_label(enc, outs)
          /\ predictions_arr' = predict(enc, outs)
    /\ cpc' = "predicted"
    /\ UNCHANGED <<prog, servoVars, enc, labels_dict, encoded, err_df, acc_df,
                   collectVars>>

\* acc_df = label_encoder.acc_metric(err_df)
AccMetric ==
    /\ prog = "codec"
    /\ cpc = "ready"
    /\ \E errs \in ErrDfs(enc) :
          /\ err_df' = errs
          /\ acc_df' = acc_metric(enc, errs)
    /\ cpc' = "scored"
    /\ UNCHANGED <<prog, servoVars, enc, labels_dict, encoded, outputs, decoded,
                   predictions_arr, collectVars>>

----------------------------------------------------------------------------
(* collect_data(robot, sensor, target_df, image_dir)                       *)

VAdd(a, b) == [i \in DOMAIN a |-> a[i] + b[i]]
VSub(a, b) == [i \in DOMAIN a |-> a[i] - b[i]]

\* drop 10mm to contact object
tap == <<0, 0, 10, 0, 0, 0>>
\* 50mm above the workframe origin
above_origin == <<0, 0, -50, 0, 0, 0>>

MoveLinear(p) == [op |-> "move_linear", arg |-> p]
MoveJoints(q) == [op |-> "move_joints", arg |-> q]
Process(image) == [op |-> "process", arg |-> image]
Close == [op |-> "close", arg |-> <<>>]

\* [*robot.joint_angles[:-1], 0]
ZeroLastJoint(q) == [i \in DOMAIN q |-> IF i = Len(q) THEN 0 ELSE q[i]]

\* the rows target_df is made of, and the joint angles the robot may report
RowChoices ==
    {[pose |-> <<0, 0, 3, 0, 0, 0>>, move |-> <<-5, 5, 0, 0, 0, 0>>,
      obj_pose |-> <<0, 0, 0, 0, 0, 0>>],
     [pose |-> <<2, -1, 4, 0, 0, 15>>, move |-> <<0, 0, 0, 0, 0, 0>>,
      obj_pose |-> <<0, 100, 0, 0, 0, 0>>],
     [pose |-> <<2, -1, 4, 0, 0, 15>>, move |-> <<-5, 5, 0, 0, 0, 0>>,
      obj_pose |-> <<0, 100, 0, 0, 0, 0>>]}
JointChoices == {<<0, -90, 90, 0, 90, 0>>, <<10, -80, 95, 5, 85, 30>>}

\* row k of a target_df: its sensor_image is image_k.png
TargetDfs ==
    UNION {{[k \in 1..n |-> rows[k] @@ [sensor_image |-> k]] :
              rows \in [1..n -> RowChoices]} : n \in 0..MaxRows}

InitCollect ==
    /\ prog = "collect"
    /\ cd_pc = "start"
    /\ target_df \in TargetDfs
    /\ row_i = 0
    /\ pose = Zero6i
    /\ move = Zero6i
    /\ joint_angles \in JointChoices
    /\ events = <<>>
    /\ task = "none"
    /\ IdleServo
    /\ IdleCodec

\* a motion command: the robot ends at joint angles of its own choosing
Moved(cmd, next_pc) ==
    /\ events' = Append(events, cmd)
    /\ joint_angles' \in JointChoices
    /\ cd_pc' = next_pc
    /\ UNCHANGED <<prog, servoVars, codecVars, target_df, row_i, pose, move>>

\* robot.move_joints([*robot.joint_angles[:-1], 0])
StartMoveJoints ==
    /\ cd_pc = "start"
    /\ events' = Append(events, MoveJoints(ZeroLastJoint(joint_angles)))
    /\ joint_angles' = ZeroLastJoint(joint_angles)
    /\ cd_pc' = "start_linear"
    /\ UNCHANGED <<prog, servoVars, codecVars, target_df, row_i, pose, move>>

\* robot.move_linear((0, 0, -50, 0, 0, 0))
StartMoveLinear ==
    /\ cd_pc = "start_linear"
    /\ Moved(MoveLinear(above_origin), "reference")

\* sensor.process(image_0.png): the reference image
CollectReference ==
    /\ cd_pc = "reference"
    /\ events' = Append(events, Process(0))
    /\ cd_pc' = "loop"
    /\ UNCHANGED <<prog, servoVars, codecVars, target_df, row_i, pose, move, joint_angles>>

\* for _, row in target_df.iterrows(): the next row's locals, pose += obj_pose
LoopNext ==
    /\ cd_pc = "loop"
    /\ row_i < Len(target_df)
    /\ row_i' = row_i + 1
    /\ pose' = VAdd(target_df[row_i + 1].pose, target_df[row_i + 1].obj_pose)
    /\ move' = target_df[row_i + 1].move
    /\ cd_pc' = "move_above"
    /\ UNCHANGED <<prog, servoVars, codecVars, target_df, joint_angles, events>>

\* the loop is over
LoopExit ==
    /\ cd_pc = "loop"
    /\ row_i >= Len(target_df)
    /\ cd_pc' = "finish_linear"
    /\ UNCHANGED <<prog, servoVars, codecVars, target_df, row_i, pose, move,
                   joint_angles, events>>

\* robot.move_linear(pose + move - tap)
MoveAbove ==
    /\ cd_pc = "move_above"
    /\ Moved(MoveLinear(VSub(VAdd(pose, move), tap)), "move_down")

\* robot.move_linear(pose + move)
MoveDown ==
    /\ cd_pc = "move_down"
    /\ Moved(MoveLinear(VAdd(pose, move)), "move_target")

\* as MoveTarget, moving to the offset position once more
MoveTarget_Offset ==
    /\ cd_pc = "move_target"
    /\ Moved(MoveLinear(VAdd(pose, move)), "capture")

\* robot.move_linear(pose)
MoveTarget ==
    /\ cd_pc = "move_target"
    /\ Moved(MoveLinear(pose), "capture")

\* sensor.process(os.path.join(image_dir, sensor_image))
Capture ==
    /\ cd_pc = "capture"
    /\ events' = Append(events, Process(target_df[row_i].sensor_image))
    /\ cd_pc' = "move_up"
    /\ UNCHANGED <<prog, servoVars, codecVars, target_df, row_i, pose, move, joint_angles>>

\* robot.move_linear(pose - tap)
MoveUp ==
    /\ cd_pc = "move_up"
    /\ Moved(MoveLinear(VSub(pose, tap)), "loop")

\* robot.move_linear((0, 0, -50, 0, 0, 0))
FinishMoveLinear ==
    /\ cd_pc = "finish_linear"
    /\ Moved(MoveLinear(above_origin), "finish_joints")

\* robot.move_joints((*robot.joint_angles[:-1], 0))
FinishMoveJoints ==
    /\ cd_pc = "finish_joints"
    /\ events' = Append(events, MoveJoints(ZeroLastJoint(joint_angles)))
    /\ joint_angles' = ZeroLastJoint(joint_angles)
    /\ cd_pc' = "close"
    /\ UNCHANGED <<prog, servoVars, codecVars, target_df, row_i, pose, move>>

\* robot.close()
RobotClose ==
    /\ cd_pc = "close"
    /\ events' = Append(events, Close)
    /\ cd_pc' = "done"
    /\ UNCHANGED <<prog, servoVars, codecVars, target_df, row_i, pose, move, joint_angles>>

----------------------------------------------------------------------------

Init == InitServo \/ InitCodec \/ InitCollect

Next ==
    \/ SetupControlParams \/ Reset \/ Step
    \/ EncodeLabel \/ DecodeEncoded \/ Predict \/ AccMetric
    \/ StartMoveJoints \/ StartMoveLinear \/ CollectReference
    \/ LoopNext \/ LoopExit
    \/ MoveAbove \/ MoveDown \/ MoveTarget \/ Capture \/ MoveUp
    \/ FinishMoveLinear \/ FinishMoveJoints \/ RobotClose

Spec == Init /\ [][Next]_vars

----------------------------------------------------------------------------
(* Properties                                                              *)

Lower(p) == p.ei_clip[1]
Upper(p) == p.ei_clip[2]

\* C1: in every running state of the PI controller (after reset, and after any
\* steps), each axis of the integral state lies within the task's
\* [ei_clip.lower, ei_clip.upper].
C1_IntegralWithinClip ==
    pid_state = "running" =>
        \A i \in Axes : /\ RLeq(Lower(control_params)[i], integral[i])
                        /\ RLeq(integral[i], Upper(control_params)[i])

\* C1 witness: after two steps or more, an axis with an integral gain sits at its
\* upper clip bound while another axis is strictly inside its interval.
C1_Witness ==
    /\ pid_state = "running"
    /\ nsteps >= 2
    /\ \E i, j \in Axes :
          /\ control_params.ki[i] # I(0)
          /\ integral[i] = Upper(control_params)[i]
          /\ RLess(Lower(control_params)[j], integral[j])
          /\ RLess(integral[j], Upper(control_params)[j])

Targets(e) == SeqRange(e.target_label_names)
Periodic(e) == SeqRange(e.periodic_label_names)
WeightOf(e, l) == e.target_weights[IndexOf(e.target_label_names, l)]
ToleranceOf(e, l) == e.tolerences[IndexOf(e.target_label_names, l)]

\* the LabelSpecs C2 speaks of: llim < ulim on every non-periodic target label,
\* and no target weight is zero
RoundTripSpec(e) ==
    \A l \in Targets(e) :
        /\ WeightOf(e, l).v # I(0)
        /\ l \notin Periodic(e) => RLess(Lim(e, l).lo, Lim(e, l).hi)

\* C2: decode_label(encode_label(pose)) returns, for each non-periodic target
\* label, the pose's value, whatever labels precede it.
C2_RoundTripNonPeriodic ==
    (cpc = "decoded" /\ RoundTripSpec(enc)) =>
        /\ decoded.st = "ok"
        /\ \A l \in Targets(enc) \ Periodic(enc) :
              REq(decoded.out[l], labels_dict[l])

\* C3: encode_label produces out_dim components, and out_dim is the number of
\* target labels plus the number of periodic target labels.
C3_EncodedLengthIsOutDim ==
    /\ cpc # "idle" =>
          out_dim(enc) = Len(enc.target_label_names)
                         + Cardinality(Targets(enc) \cap Periodic(enc))
    /\ (cpc = "encoded" /\ encoded.st = "ok") => Len(encoded.out) = out_dim(enc)

\* what the spec says encode_label appends for the labels from the k-th on
RECURSIVE WeightedEncoding(_, _, _)
WeightedEncoding(e, labels, k) ==
    IF k > Len(e.target_label_names) THEN <<>>
    ELSE LET l == e.target_label_names[k]
             w == e.target_weights[k].v
         IN  (IF l \in Periodic(e)
              THEN <<RMul(w, SinDeg(labels[l])), RMul(w, CosDeg(labels[l]))>>
              ELSE <<RMul(w, encode_norm(e, labels[l], l))>>)
             \o WeightedEncoding(e, labels, k + 1)

\* C4: encode_label returns, label by label, w * norm(value) for a non-periodic
\* label and (w * sin, w * cos) for a periodic one, for every weight.
C4_EncodeScalesByWeight ==
    cpc = "encoded" => encoded = Ok(WeightedEncoding(enc, labels_dict, 1))

\* C5: an estimator output whose length differs from out_dim makes decode_label
\* and predict end in an error.
C5_WrongLengthRejected ==
    (cpc = "predicted" /\ Len(outputs) # out_dim(enc)) =>
        /\ decoded.st = "error"
        /\ predictions_arr.st = "error"

\* a non-periodic target label whose limits coincide
Degenerate(e) ==
    \E l \in Targets(e) \ Periodic(e) : Lim(e, l).lo = Lim(e, l).hi

\* C6: with ulim = llim on a non-periodic target label, no encoded value and no
\* decoded pose is produced.
C6_DegenerateLimitsRejected ==
    (cpc # "idle" /\ Degenerate(enc)) =>
        /\ encoded.st # "ok"
        /\ decoded.st # "ok"

\* C7: the mapping decode_label returns has exactly the keys of label_names, and
\* every label that is no target maps to zero.
C7_DecodedKeysAndZeros ==
    decoded.st = "ok" =>
        /\ DOMAIN decoded.out = SeqRange(enc.label_names)
        /\ \A l \in SeqRange(enc.label_names) \ Targets(enc) : decoded.out[l] = I(0)

\* C7 witness: a decoded estimator output with a label that is no target and a
\* target label decoded to a value other than zero.
C7_Witness ==
    /\ cpc = "predicted"
    /\ decoded.st = "ok"
    /\ SeqRange(enc.label_names) \ Targets(enc) # {}
    /\ \E l \in Targets(enc) : decoded.out[l] # I(0)

\* C8: a sample is correct on a target label exactly when its error is strictly
\* below that label's tolerance, and overall correct exactly when it is correct
\* on every target label.
C8_AccuracyStrict ==
    cpc = "scored" =>
        /\ \A l \in Targets(enc) :
              acc_df[l] = (IF RLess(err_df[l], ToleranceOf(enc, l)) THEN I(1) ELSE I(0))
        /\ acc_df["overall_acc"] =
              (IF \A l \in Targets(enc) : RLess(err_df[l], ToleranceOf(enc, l))
               THEN I(1) ELSE I(0))

\* C8 witness: one target label's error equals its tolerance and is not correct,
\* another's is below and is correct, and the sample is not overall correct.
C8_Witness ==
    /\ cpc = "scored"
    /\ \E l, m \in Targets(enc) :
          /\ err_df[l] = ToleranceOf(enc, l)
          /\ acc_df[l] = I(0)
          /\ acc_df[m] = I(1)
    /\ acc_df["overall_acc"] = I(0)

\* C9: the pid_params of every task have ei_clip.lower[i] <= ei_clip.upper[i]
\* on every axis.
C9_ClipOrdered ==
    control_params # NoParams =>
        \A i \in Axes : RLeq(Lower(control_params)[i], Upper(control_params)[i])

\* C9 witness: a task has been set up whose clip interval is degenerate on one
\* axis and proper on another.
C9_Witness ==
    /\ control_params # NoParams
    /\ \E i, j \in Axes :
          /\ Lower(control_params)[i] = Upper(control_params)[i]
          /\ RLess(Lower(control_params)[j], Upper(control_params)[j])

\* the commands of one row: above, offset, target, capture, lift
RowEvents(row) ==
    LET p == VAdd(row.pose, row.obj_pose)
    IN  <<MoveLinear(VSub(VAdd(p, row.move), tap)),
          MoveLinear(VAdd(p, row.move)),
          MoveLinear(p),
          Process(row.sensor_image),
          MoveLinear(VSub(p, tap))>>

RECURSIVE LoopEvents(_, _)
LoopEvents(df, k) ==
    IF k > Len(df) THEN <<>> ELSE RowEvents(df[k]) \o LoopEvents(df, k + 1)

\* an event with the joint angles of a move_joints left out
Skeleton(ev) == IF ev.op = "move_joints" THEN [op |-> "move_joints"] ELSE ev

ExpectedEvents(df) ==
    <<[op |-> "move_joints"], MoveLinear(above_origin), Process(0)>>
    \o LoopEvents(df, 1)
    \o <<MoveLinear(above_origin), [op |-> "move_joints"], Close>>

IsPrefix(s, t) ==
    /\ Len(s) <= Len(t)
    /\ \A i \in DOMAIN s : s[i] = t[i]

C11_GainMatchesClip ==
    control_params # NoParams =>
        \A i \in Axes :
            /\ (control_params.ki[i] # I(0)) <=>
                   RLess(Lower(control_params)[i], Upper(control_params)[i])
            /\ control_params.ki[i] = I(0) =>
                   (/\ Lower(control_params)[i] = I(0)
                    /\ Upper(control_params)[i] = I(0))

====
